---- MODULE Spec2Model ----
(***************************************************************************)
(* Booking engine and M-Pesa payment reconciliation of the Adventures      *)
(* backend (backend/app).  Every HTTP handler is one atomic action: it     *)
(* runs as one request-scoped database transaction.  The tables are the    *)
(* state; the last response is kept in resp, together with the request     *)
(* that produced it.                                                       *)
(***************************************************************************)
EXTENDS Integers, Sequences, FiniteSets, TLC

VARIABLES
    users,       \* users table: id -> row (models/user.py)
    adventures,  \* adventures table: id -> row (models/adventure.py)
    bookings,    \* bookings table: sequence of rows, index = autoincrement id
    payments,    \* payments table: sequence of rows, index = autoincrement id
    resp,        \* the last request with its HTTP response
    inflight     \* requests between two of their steps: request -> progress

vars == <<users, adventures, bookings, payments, resp, inflight>>

----------------------------------------------------------------------------
(* Python values *)

\* an optional value: None is the empty tuple, a present value v is <<v>>
None == << >>
Some(v) == <<v>>

\* Python truthiness of an optional integer (None and 0 are falsy)
Truthy(o) == o # None /\ o[1] # 0

\* a datetime is <<day, hour>>; date() keeps the day
Date(t) == t[1]
Before(t1, t2) == t1[1] < t2[1] \/ (t1[1] = t2[1] /\ t1[2] < t2[2])

RECURSIVE SumPeople(_, _)
SumPeople(rows, S) ==
    IF S = {} THEN 0
    ELSE LET i == CHOOSE x \in S : TRUE
         IN rows[i].number_of_people + SumPeople(rows, S \ {i})

----------------------------------------------------------------------------
(* Input domains *)

\* session cookies: 0 is a request without user_id, 3 the id of no user row
SessionIds == {0, 1, 2, 3}

\* the values generate_booking_reference can return (8 random characters
\* in the code, two references here: a collision is a real case)
Refs == {"BK-AAAAAAAA", "BK-BBBBBBBB"}

\* the limit on participants when the adventure has no max_capacity
DefaultMaxParticipants == 20

\* default of the limit query parameter of the user's booking list
DefaultListLimit == 50

BookingStatuses == {"pending", "confirmed", "cancelled", "completed"}

----------------------------------------------------------------------------
(* Session authentication *)

\* routes/booking.py get_current_user: the user row of the session, or None
get_current_userMut(sid) == Some(sid)
get_current_user(sid) ==
    IF sid = 0 THEN None
    ELSE IF sid \in DOMAIN users THEN Some(sid) ELSE None

----------------------------------------------------------------------------
(* Availability *)

\* the bookings of an adventure on a calendar date that are confirmed
ConfirmedOn(rows, a, d) ==
    {i \in DOMAIN rows : /\ rows[i].adventure_id = a
                         /\ Date(rows[i].adventure_date) = d
                         /\ rows[i].status = "confirmed"}

\* people on confirmed bookings of adventure a on date d
ConfirmedPeople(rows, a, d) == SumPeople(rows, ConfirmedOn(rows, a, d))

\* models/adventure.py calculate_available_slots(date): max_capacity less
\* the number of confirmed bookings of the adventure on the calendar date,
\* never below 0
calculate_available_slots(a, d) ==
    LET confirmed_count == Cardinality(ConfirmedOn(bookings, a, d))
        left == adventures[a].max_capacity - confirmed_count
    IN IF left > 0 THEN left ELSE 0

----------------------------------------------------------------------------
(* create_booking *)

\* participants = data.get("participants") or data.get("number_of_people", 1)
RequestedParticipants(req) ==
    IF Truthy(req.participants) THEN req.participants[1]
    ELSE IF req.number_of_people # None THEN req.number_of_people[1]
    ELSE 1

\* the participants limit of an adventure (lines 146-156)
ParticipantsLimit(adv) ==
    IF adv.max_capacity # 0 THEN adv.max_capacity ELSE DefaultMaxParticipants

\* total_amount = float(adventure.price) * participants
TotalAmountMut(price, n) == price
TotalAmount(price, n) == price * n

\* the row Booking(...) builds
NewBooking(uid, a, date, n, total, ref) ==
    [user_id |-> uid, adventure_id |-> a, payment_id |-> None,
     adventure_date |-> date, number_of_people |-> n, total_amount |-> total,
     status |-> "pending", booking_reference |-> ref]

\* the "booking" object of a response
BookingJson(id, b) ==
    [id |-> id, booking_reference |-> b.booking_reference,
     adventure_id |-> b.adventure_id, adventure_date |-> b.adventure_date,
     participants |-> b.number_of_people, total_amount |-> b.total_amount,
     status |-> b.status]

\* a response: the handler, the HTTP status, the error kind and the JSON body
Reply(op, code, error, body) ==
    [op |-> op, code |-> code, error |-> error, body |-> body]

\* models/booking.py 76-81, unique=True: the INSERT of a row whose
\* booking_reference some row already has raises IntegrityError
ReferenceTakenMut(ref) == FALSE
ReferenceTaken(ref) ==
    \E i \in DOMAIN bookings : bookings[i].booking_reference = ref

\* Adventure.query.filter_by(id=adventure_id, is_active=True).first()
ActiveAdventureMut(a) == a \in DOMAIN adventures
ActiveAdventure(a) == a \in DOMAIN adventures /\ adventures[a].is_active

\* the outcome of create_booking on the current tables: the new bookings
\* table and the response.  req.booking_date is None or <<[parses, t]>>: a
\* date string with whether it parses and the datetime it parses to.  ref is
\* the reference Booking.__init__ draws, now the reading of
\* datetime.now(timezone.utc).
CreateBookingOutcome(sid, req, ref, now) ==
    LET R(code, error, body) ==
            [bookings |-> bookings,
             resp |-> Reply("create_booking", code, error, body)]
        user == get_current_user(sid)
        n == RequestedParticipants(req)
    IN
    IF user = None THEN R(401, "Unauthorized", None)
    ELSE IF req.adventure_id = 0 THEN R(400, "InvalidInput", None)
    ELSE IF req.booking_date = None THEN R(400, "InvalidInput", None)
    ELSE IF ~ActiveAdventure(req.adventure_id) THEN R(404, "NotFound", None)
    ELSE IF ~req.booking_date[1].parses THEN R(400, "InvalidInput", None)
    ELSE IF Before(req.booking_date[1].t, now) THEN R(400, "InvalidInput", None)
    ELSE IF n < 1 THEN R(400, "InvalidInput", None)
    ELSE IF n > ParticipantsLimit(adventures[req.adventure_id])
         THEN R(400, "InvalidInput", None)
    ELSE IF ReferenceTaken(ref)
         \* unique constraint on booking_reference: commit raises, rollback
         THEN R(500, "ServerError", None)
    ELSE LET adv == adventures[req.adventure_id]
             b == NewBooking(user[1], req.adventure_id, req.booking_date[1].t, n,
                             TotalAmount(adv.price, n), ref)
             id == Len(bookings) + 1
         IN [bookings |-> Append(bookings, b),
             resp |-> Reply("create_booking", 201, "",
                            Some(BookingJson(id, b)))]

CreateBooking(sid, req, ref, now) ==
    LET out == CreateBookingOutcome(sid, req, ref, now)
    IN /\ bookings' = out.bookings
       /\ resp' = out.resp
       /\ UNCHANGED <<inflight, users, adventures, payments>>

----------------------------------------------------------------------------
(* cancel_booking *)

\* Booking.query.filter_by(id=..., user_id=...).first(): the id, or 0
OwnBooking(id, uid) ==
    IF id \in DOMAIN bookings /\ bookings[id].user_id = uid THEN id ELSE 0

\* the statuses cancel_booking accepts (line 403)
CancellableMut == {"pending", "confirmed", "completed"}
Cancellable == {"pending", "confirmed"}

CancelBookingOutcome(sid, id) ==
    LET R(code, error, body) ==
            [bookings |-> bookings,
             resp |-> Reply("cancel_booking", code, error, body)]
        user == get_current_user(sid)
    IN
    IF user = None THEN R(401, "Unauthorized", None)
    ELSE IF OwnBooking(id, user[1]) = 0 THEN R(404, "NotFound", None)
    ELSE IF bookings[id].status \notin Cancellable
         THEN R(400, "InvalidStateTransition", None)
    ELSE LET b == [bookings[id] EXCEPT !.status = "cancelled"]
         IN [bookings |-> [bookings EXCEPT ![id] = b],
             resp |-> Reply("cancel_booking", 200, "",
                            Some(BookingJson(id, b)))]

CancelBooking(sid, id) ==
    LET out == CancelBookingOutcome(sid, id)
    IN /\ bookings' = out.bookings
       /\ resp' = out.resp
       /\ UNCHANGED <<inflight, users, adventures, payments>>

----------------------------------------------------------------------------
(* admin: update_booking_status *)

\* utils/helpers.py admin_required: 0 when the request passes, else the
\* status code it answers with
admin_required(sid) ==
    IF sid = 0 THEN 401
    ELSE IF sid \notin DOMAIN users \/ ~users[sid].is_admin THEN 403
    ELSE 0

\* the statuses update_booking_status accepts (line 493)
AdminStatuses ==
    {"pending", "confirmed", "cancelled", "completed", "payment_pending"}

UpdateBookingStatusOutcome(sid, id, new_status) ==
    LET R(code, error, body) ==
            [bookings |-> bookings,
             resp |-> Reply("update_booking_status", code, error, body)]
        denied == admin_required(sid)
    IN
    IF denied # 0 THEN R(denied, "Unauthorized", None)
    ELSE IF new_status \notin AdminStatuses THEN R(400, "InvalidInput", None)
    \* get_or_404 aborts with NotFound, which the handler's except clause
    \* catches: rollback and 500
    ELSE IF id \notin DOMAIN bookings THEN R(500, "ServerError", None)
    ELSE LET b == [bookings[id] EXCEPT !.status = new_status]
         IN [bookings |-> [bookings EXCEPT ![id] = b],
             resp |-> Reply("update_booking_status", 200, "",
                            Some(BookingJson(id, b)))]

UpdateBookingStatus(sid, id, new_status) ==
    LET out == UpdateBookingStatusOutcome(sid, id, new_status)
    IN /\ bookings' = out.bookings
       /\ resp' = out.resp
       /\ UNCHANGED <<inflight, users, adventures, payments>>

----------------------------------------------------------------------------
(* get_booking_by_id, get_user_bookings *)

\* bookings joined with their adventure (an inner join)
Joined(id) == id \in DOMAIN bookings /\ bookings[id].adventure_id \in DOMAIN adventures

GetBookingByIdReply(sid, id) ==
    LET user == get_current_user(sid)
    IN
    IF user = None
    THEN Reply("get_booking_by_id", 401, "Unauthorized", None)
    ELSE IF ~(Joined(id) /\ bookings[id].user_id = user[1])
    THEN Reply("get_booking_by_id", 404, "NotFound", None)
    ELSE Reply("get_booking_by_id", 200, "",
               Some(BookingJson(id, bookings[id])))

GetBookingById(sid, id) ==
    /\ resp' = GetBookingByIdReply(sid, id)
    /\ UNCHANGED <<inflight, users, adventures, bookings, payments>>

\* the ids of a user's bookings, newest first (order_by created_at desc),
\* filtered by status when the query names one, cut at limit
RECURSIVE NewestFirst(_, _, _)
NewestFirst(uid, status, id) ==
    IF id = 0 THEN << >>
    ELSE IF /\ Joined(id)
            /\ bookings[id].user_id = uid
            /\ (status = None \/ bookings[id].status = status[1])
         THEN <<id>> \o NewestFirst(uid, status, id - 1)
         ELSE NewestFirst(uid, status, id - 1)

UserBookingsMut(uid, status, limit) ==
    [k \in 1..Len(bookings) |-> BookingJson(k, bookings[k])]
UserBookings(uid, status, limit) ==
    LET ids == NewestFirst(uid, status, Len(bookings))
    IN [k \in 1..(IF Len(ids) < limit THEN Len(ids) ELSE limit) |->
           BookingJson(ids[k], bookings[ids[k]])]

GetUserBookingsReply(sid, status) ==
    LET user == get_current_user(sid)
    IN
    IF user = None
    THEN Reply("get_user_bookings", 401, "Unauthorized", None)
    ELSE Reply("get_user_bookings", 200, "",
               Some(UserBookings(user[1], status, DefaultListLimit)))

GetUserBookings(sid, status) ==
    /\ resp' = GetUserBookingsReply(sid, status)
    /\ UNCHANGED <<inflight, users, adventures, bookings, payments>>

----------------------------------------------------------------------------
(* initiate_payment *)

\* the row Payment(...) builds in initiate_payment; the columns it does not
\* name take the defaults of models/payment.py
NewPaymentMut(uid, a, booking_id, phone, amount, checkout_request_id) ==
    [user_id |-> uid, adventure_id |-> a, booking_id |-> booking_id,
     phone_number |-> phone, amount |-> amount, status |-> "pending",
     checkout_request_id |-> None,
     mpesa_receipt_number |-> None, result_code |-> None,
     result_desc |-> None, transaction_date |-> "utcnow", updated_at |-> 0]
NewPayment(uid, a, booking_id, phone, amount, checkout_request_id) ==
    [user_id |-> uid, adventure_id |-> a, booking_id |-> booking_id,
     phone_number |-> phone, amount |-> amount, status |-> "pending",
     checkout_request_id |-> checkout_request_id,
     mpesa_receipt_number |-> None, result_code |-> None,
     result_desc |-> None, transaction_date |-> "utcnow", updated_at |-> 0]

\* the "payment" object of the response
PaymentJson(id, p) ==
    [id |-> id, booking_id |-> p.booking_id, amount |-> p.amount,
     status |-> p.status, checkout_request_id |-> p.checkout_request_id]

\* f"MOCK_{booking.id}_{datetime.now().timestamp()}": the clock has
\* microsecond resolution and successive readings differ; the reading is
\* the number of the payment being made
MockCheckoutId(booking_id) == <<"MOCK", booking_id, Len(payments) + 1>>

\* the status initiate_payment leaves the booking in (line 352)
StatusAfterInitiate == "payment_pending"

\* the statuses initiate_payment accepts (line 331)
PayableMut == {"pending", "confirmed", "cancelled"}
Payable == {"pending"}

\* The outcome of initiate_payment.  booking_id_kw tells whether Payment
\* accepts the keyword booking_id: this handler and admin.py (337, 548) use
\* Payment.booking_id, models/payment.py declares no such column, and built
\* against that model the constructor raises TypeError, which the except
\* clause of line 367 turns into rollback and 500.
InitiatePaymentOutcome(sid, booking_id, phone, booking_id_kw) ==
    LET R(code, error, body) ==
            [bookings |-> bookings, payments |-> payments,
             resp |-> Reply("initiate_payment", code, error, body)]
        user == get_current_user(sid)
    IN
    IF user = None THEN R(401, "Unauthorized", None)
    ELSE IF booking_id = 0 \/ phone = "" THEN R(400, "InvalidInput", None)
    ELSE IF OwnBooking(booking_id, user[1]) = 0 THEN R(404, "NotFound", None)
    ELSE IF bookings[booking_id].status \notin Payable
         THEN R(400, "InvalidStateTransition", None)
    ELSE IF ~booking_id_kw THEN R(500, "ServerError", None)
    ELSE LET b == bookings[booking_id]
             p == NewPayment(user[1], b.adventure_id, booking_id, phone,
                             b.total_amount, MockCheckoutId(booking_id))
         IN [bookings |-> [bookings EXCEPT
                              ![booking_id].status = StatusAfterInitiate],
             payments |-> Append(payments, p),
             resp |-> Reply("initiate_payment", 200, "",
                            Some(PaymentJson(Len(payments) + 1, p)))]

InitiatePayment(sid, booking_id, phone, booking_id_kw) ==
    LET out == InitiatePaymentOutcome(sid, booking_id, phone, booking_id_kw)
    IN /\ bookings' = out.bookings
       /\ payments' = out.payments
       /\ resp' = out.resp
       /\ UNCHANGED <<inflight, users, adventures>>

----------------------------------------------------------------------------
(* stk_push *)

\* utils/helpers.py login_required: 0 when the request passes, else 401
login_required(sid) == IF sid = 0 THEN 401 ELSE 0

\* routes/mpesa.py never imports session: line 15 raises NameError inside
\* the try, so every authenticated call ends in rollback and 500, before
\* the provider is called and before any Payment is built
StkPushReply(sid, req) ==
    IF login_required(sid) # 0
    THEN Reply("stk_push", 401, "Unauthorized", None)
    ELSE Reply("stk_push", 500, "ServerError", None)

StkPush(sid, req) ==
    /\ resp' = StkPushReply(sid, req)
    /\ UNCHANGED <<inflight, users, adventures, bookings, payments>>

----------------------------------------------------------------------------
(* mpesa_callback *)

\* Payment.query.filter_by(checkout_request_id=...).first(): the id of the
\* first matching row, or 0
PaymentByCheckoutIdMut(rows, cid) == IF rows = << >> THEN 0 ELSE 1
PaymentByCheckoutId(rows, cid) ==
    LET M == {i \in DOMAIN rows : rows[i].checkout_request_id = cid}
    IN IF M = {} THEN 0 ELSE CHOOSE i \in M : \A j \in M : i <= j

\* Booking.query.filter_by(payment_id=payment.id).first(): the id, or 0
BookingByPaymentId(rows, pid) ==
    LET M == {i \in DOMAIN rows : rows[i].payment_id = Some(pid)}
    IN IF M = {} THEN 0 ELSE CHOOSE i \in M : \A j \in M : i <= j

\* the TransactionDate values strptime(..., '%Y%m%d%H%M%S') parses
WellFormedDates == {"20250601120000"}

\* one pass of the loop over CallbackMetadata.Item (lines 76-84)
ApplyItem(p, item) ==
    IF item.Name = "MpesaReceiptNumber"
    THEN [p EXCEPT !.mpesa_receipt_number = Some(item.Value)]
    ELSE IF item.Name = "Amount"
    THEN [p EXCEPT !.amount = item.Value]
    ELSE IF item.Name = "TransactionDate"
    THEN [p EXCEPT !.transaction_date = item.Value]
    ELSE p

RECURSIVE ApplyItems(_, _)
ApplyItems(p, items) ==
    IF items = << >> THEN p
    ELSE ApplyItems(ApplyItem(p, Head(items)), Tail(items))

\* strptime raises ValueError on some TransactionDate item
DateItemRaises(items) ==
    \E k \in DOMAIN items : /\ items[k].Name = "TransactionDate"
                             /\ items[k].Value \notin WellFormedDates

\* the branch for result_code == 0 (lines 72-88)
CompletedMut(p, rc, desc, items) ==
    [ApplyItems(p, items) EXCEPT !.status = "completed",
                                  !.result_code = rc, !.result_desc = Some(desc),
                                  !.amount = @ + p.amount]
Completed(p, rc, desc, items) ==
    [ApplyItems(p, items) EXCEPT !.status = "completed",
                                  !.result_code = rc, !.result_desc = Some(desc)]

\* the branch for any other result_code (lines 95-99)
Failed(p, rc, desc) ==
    [p EXCEPT !.status = "failed", !.result_code = rc,
              !.result_desc = Some(desc)]

\* db.session.commit() of a row the handler assigned to (models/payment.py
\* line 24, onupdate=datetime.utcnow): the UPDATE is emitted, and updated_at
\* takes the clock's reading, only when some column's value differs from
\* the stored one
Committed(stored, assigned, now) ==
    IF assigned = stored THEN stored ELSE [assigned EXCEPT !.updated_at = now]

\* mpesa_callback on tables pays and bks while the clock reads now: the
\* tables it commits and the acknowledgement.  An exception leaves the
\* handler without commit, and the request's session is discarded: nothing
\* is written.
CallbackOutcome(pays, bks, cid, rc, desc, items, now) ==
    LET pid == PaymentByCheckoutId(pays, cid)
        ack == [code |-> 200, ResultCode |-> 0]
    IN
    IF pid = 0 THEN [payments |-> pays, bookings |-> bks, found |-> 0, ack |-> ack]
    ELSE IF rc = Some(0)
    THEN IF DateItemRaises(items)
         THEN [payments |-> pays, bookings |-> bks, found |-> pid,
               ack |-> [code |-> 500, ResultCode |-> 1]]
         ELSE LET bid == BookingByPaymentId(bks, pid)
              IN [payments |-> [pays EXCEPT ![pid] =
                                   Committed(@, Completed(@, rc, desc, items), now)],
                  bookings |-> IF bid = 0 THEN bks
                               ELSE [bks EXCEPT ![bid].status = "confirmed"],
                  found |-> pid, ack |-> ack]
    ELSE [payments |-> [pays EXCEPT ![pid] = Committed(@, Failed(@, rc, desc), now)],
          bookings |-> bks, found |-> pid, ack |-> ack]

MpesaCallback(cid, rc, desc, items, now) ==
    LET out == CallbackOutcome(payments, bookings, cid, rc, desc, items, now)
    IN /\ payments' = out.payments
       /\ bookings' = out.bookings
       /\ resp' = Reply("mpesa_callback", out.ack.code,
                        IF out.ack.code = 200 THEN "" ELSE "ServerError",
                        Some([ResultCode |-> out.ack.ResultCode]))
       /\ UNCHANGED <<inflight, users, adventures>>

----------------------------------------------------------------------------
(* adventures: update_adventure, delete_adventure, toggle_adventure_status *)

\* the "adventure" object of a response
AdventureJson(id, adv) ==
    [id |-> id, price |-> adv.price, max_capacity |-> adv.max_capacity,
     is_active |-> adv.is_active]

\* adventure.user_id != user_id and not (user and user.is_admin)
MayEdit(sid, adv) ==
    \/ adv.user_id = sid
    \/ sid \in DOMAIN users /\ users[sid].is_admin

\* the loop over the plain fields (lines 610-613): each field the request
\* carries is assigned as sent
SetFields(adv, data) ==
    [adv EXCEPT !.max_capacity = IF data.max_capacity = None THEN @
                                 ELSE data.max_capacity[1],
                !.is_active = IF data.is_active = None THEN @
                              ELSE data.is_active[1]]

\* Booking.calculate_total_amount: total_amount taken again from the
\* adventure's price
calculate_total_amount(b, advs) ==
    IF b.adventure_id \in DOMAIN advs /\ b.number_of_people # 0
    THEN [b EXCEPT !.total_amount = advs[b.adventure_id].price * b.number_of_people]
    ELSE b

\* the bookings table once update_adventure has committed: the handler
\* loads and assigns the Adventure row only, and calculate_total_amount is
\* called nowhere
BookingsAfterUpdateMut(bks, advs) ==
    [i \in DOMAIN bks |-> calculate_total_amount(bks[i], advs)]
BookingsAfterUpdate(bks, advs) == bks

\* extensions.py db = SQLAlchemy(): the request's session is removed when
\* the request ends, so what a handler assigned to a loaded row and did not
\* commit is dropped and the stored row stays
DiscardedMut(stored, assigned) == assigned
Discarded(stored, assigned) == stored

\* The outcome of update_adventure.  data.price is None or <<[parses, v]>>:
\* what float(data['price']) does with the value sent.  A return with 400
\* comes after the plain fields were assigned but before the commit; the
\* request's session is dropped with them.
UpdateAdventureOutcome(sid, id, data) ==
    LET R(code, error) ==
            [adventures |-> adventures, bookings |-> bookings,
             resp |-> Reply("update_adventure", code, error, None)]
    IN
    IF login_required(sid) # 0 THEN R(401, "Unauthorized")
    ELSE IF id \notin DOMAIN adventures THEN R(404, "NotFound")
    ELSE IF ~MayEdit(sid, adventures[id]) THEN R(403, "Forbidden")
    ELSE LET set == SetFields(adventures[id], data)
             Rejected ==
                 [adventures |->
                     [adventures EXCEPT ![id] = Discarded(adventures[id], set)],
                  bookings |-> bookings,
                  resp |-> Reply("update_adventure", 400, "InvalidInput", None)]
         IN IF data.price # None /\ ~data.price[1].parses
            THEN Rejected
            ELSE IF data.price # None /\ data.price[1].v < 0
            THEN Rejected
            ELSE LET adv == IF data.price = None THEN set
                            ELSE [set EXCEPT !.price = data.price[1].v]
                     advs == [adventures EXCEPT ![id] = adv]
                 IN [adventures |-> advs,
                     bookings |-> BookingsAfterUpdate(bookings, advs),
                     resp |-> Reply("update_adventure", 200, "",
                                    Some(AdventureJson(id, adv)))]

UpdateAdventure(sid, id, data) ==
    LET out == UpdateAdventureOutcome(sid, id, data)
    IN /\ adventures' = out.adventures
       /\ bookings' = out.bookings
       /\ resp' = out.resp
       /\ UNCHANGED <<inflight, users, payments>>

\* delete_adventure: the soft delete
DeleteAdventure(sid, id) ==
    /\ IF login_required(sid) # 0
       THEN /\ resp' = Reply("delete_adventure", 401, "Unauthorized", None)
            /\ UNCHANGED adventures
       ELSE IF id \notin DOMAIN adventures
       THEN /\ resp' = Reply("delete_adventure", 404, "NotFound", None)
            /\ UNCHANGED adventures
       ELSE IF ~MayEdit(sid, adventures[id])
       THEN /\ resp' = Reply("delete_adventure", 403, "Forbidden", None)
            /\ UNCHANGED adventures
       ELSE /\ adventures' = [adventures EXCEPT ![id].is_active = FALSE]
            /\ resp' = Reply("delete_adventure", 200, "", Some([id |-> id]))
    /\ UNCHANGED <<inflight, users, bookings, payments>>

\* admin.py toggle_adventure_status; get_or_404 raises inside the try, so
\* an unknown id is answered 500
ToggleAdventureStatus(sid, id) ==
    /\ IF admin_required(sid) # 0
       THEN /\ resp' = Reply("toggle_adventure_status", admin_required(sid),
                             IF sid = 0 THEN "Unauthorized" ELSE "Forbidden",
                             None)
            /\ UNCHANGED adventures
       ELSE IF id \notin DOMAIN adventures
       THEN /\ resp' = Reply("toggle_adventure_status", 500, "ServerError", None)
            /\ UNCHANGED adventures
       ELSE /\ adventures' = [adventures EXCEPT ![id].is_active = ~@]
            /\ resp' = Reply("toggle_adventure_status", 200, "",
                             Some([id |-> id, is_active |-> ~adventures[id].is_active]))
    /\ UNCHANGED <<inflight, users, bookings, payments>>

----------------------------------------------------------------------------
(* get_payments and get_payment *)

\* routes/mpesa.py get_payments: behind login_required, and line 112 reads
\* the session that the module never imports: NameError inside the try,
\* answered 500 before the query
GetPaymentsReply(sid) ==
    IF login_required(sid) # 0
    THEN Reply("get_payments", 401, "Unauthorized", None)
    ELSE Reply("get_payments", 500, "ServerError", None)

GetPayments(sid) ==
    /\ resp' = GetPaymentsReply(sid)
    /\ UNCHANGED <<inflight, users, adventures, bookings, payments>>

\* routes/mpesa.py get_payment: the same at line 122
GetPaymentReply(sid, payment_id) ==
    IF login_required(sid) # 0
    THEN Reply("get_payment", 401, "Unauthorized", None)
    ELSE Reply("get_payment", 500, "ServerError", None)

GetPayment(sid, payment_id) ==
    /\ resp' = GetPaymentReply(sid, payment_id)
    /\ UNCHANGED <<inflight, users, adventures, bookings, payments>>

----------------------------------------------------------------------------
(* Users: toggle_admin and register, each in the two steps between which  *)
(* another request of a threaded or multi-worker server can run            *)

\* the requests that have passed their first step
Pending(op) == {r \in DOMAIN inflight : inflight[r].op = op}

\* inflight without the request r
Without(r) == [q \in DOMAIN inflight \ {r} |-> inflight[q]]

\* utils/helpers.py admin_required, the decorator of toggle_admin: it
\* answers 401 or 403, or lets the request into the handler body
ToggleAdminCheck(rid, sid, user_id) ==
    /\ rid \notin DOMAIN inflight
    /\ IF admin_required(sid) # 0
       THEN /\ resp' = Reply("toggle_admin", admin_required(sid),
                             IF admin_required(sid) = 401
                             THEN "Unauthorized" ELSE "Forbidden", None)
            /\ UNCHANGED inflight
       ELSE /\ inflight' =
                  inflight @@
                  rid :> [op |-> "toggle_admin", sid |-> sid,
                          user_id |-> user_id]
            /\ UNCHANGED resp
    /\ UNCHANGED <<users, adventures, bookings, payments>>

\* routes/admin.py toggle_admin, the body: the requester's own id is
\* refused; get_or_404 raises inside the try, which answers 500; else the
\* target's flag is flipped and committed
ToggleAdminBody(rid) ==
    /\ rid \in Pending("toggle_admin")
    /\ LET sid == inflight[rid].sid
           user_id == inflight[rid].user_id
       IN  IF sid = user_id
           THEN /\ resp' = Reply("toggle_admin", 400, "OwnRole", None)
                /\ UNCHANGED users
           ELSE IF user_id \notin DOMAIN users
           THEN /\ resp' = Reply("toggle_admin", 500, "ServerError", None)
                /\ UNCHANGED users
           ELSE /\ users' =
                      [users EXCEPT
                          ![user_id].is_admin = ~users[user_id].is_admin]
                /\ resp' = Reply("toggle_admin", 200, "",
                                 Some([id |-> user_id,
                                       is_admin |-> ~users[user_id].is_admin]))
    /\ inflight' = Without(rid)
    /\ UNCHANGED <<adventures, bookings, payments>>

\* str.strip(): the string without its leading and trailing whitespace
RECURSIVE strip(_)
strip(s) ==
    IF s # << >> /\ Head(s) = " " THEN strip(Tail(s))
    ELSE IF s # << >> /\ s[Len(s)] = " "
    THEN strip(SubSeq(s, 1, Len(s) - 1))
    ELSE s

\* str.lower(): every upper-case letter replaced by its lower-case letter
lower(s) ==
    [i \in DOMAIN s |->
        CASE s[i] = "A" -> "a"
          [] s[i] = "B" -> "b"
          [] s[i] = "C" -> "c"
          [] s[i] = "D" -> "d"
          [] OTHER -> s[i]]

\* utils/helpers.py validate_required_fields: every field present and truthy
validate_required_fields(data, required_fields) ==
    \A f \in required_fields : data[f] # None /\ data[f][1] # << >>

\* models/user.py 14-15, unique=True on username and on email: the INSERT
\* of a row whose username or email some row already has raises
\* IntegrityError
UniqueViolationMut(username, email) == FALSE
UniqueViolation(username, email) ==
    \E u \in DOMAIN users :
        users[u].username = username \/ users[u].email = email

\* the id the next INSERT into users gets
NextUserId ==
    1 + CHOOSE m \in DOMAIN users : \A u \in DOMAIN users : u <= m

\* routes/auth.py register, lines 63-82: required fields, normalisation and
\* the two look-ups for an existing username and email
RegisterCheck(rid, data) ==
    /\ rid \notin DOMAIN inflight
    /\ IF ~validate_required_fields(data, {"username", "email", "password"})
       THEN /\ resp' = Reply("register", 400, "MissingFields", None)
            /\ UNCHANGED inflight
       ELSE LET username == strip(data.username[1])
                email == lower(strip(data.email[1]))
            IN  IF \E u \in DOMAIN users : users[u].username = username
                THEN /\ resp' = Reply("register", 400, "UsernameExists", None)
                     /\ UNCHANGED inflight
                ELSE IF \E u \in DOMAIN users : users[u].email = email
                THEN /\ resp' = Reply("register", 400, "EmailExists", None)
                     /\ UNCHANGED inflight
                ELSE /\ inflight' =
                           inflight @@
                           rid :> [op |-> "register", username |-> username,
                                   email |-> email]
                     /\ UNCHANGED resp
    /\ UNCHANGED <<users, adventures, bookings, payments>>

\* routes/auth.py register, lines 84-123: the INSERT and commit, then the
\* session of the new user (the cookie of the 201 response); IntegrityError
\* rolls back and answers 400 before any session is written
RegisterCommit(rid) ==
    /\ rid \in Pending("register")
    /\ LET username == inflight[rid].username
           email == inflight[rid].email
       IN  IF UniqueViolation(username, email)
           THEN /\ resp' = Reply("register", 400, "UserExists", None)
                /\ UNCHANGED users
           ELSE /\ users' =
                      users @@
                      NextUserId :> [username |-> username, email |-> email,
                                     is_admin |-> FALSE]
                /\ resp' = Reply("register", 201, "",
                                 Some([id |-> NextUserId,
                                       username |-> username,
                                       email |-> email,
                                       session_user_id |-> NextUserId]))
    /\ inflight' = Without(rid)
    /\ UNCHANGED <<adventures, bookings, payments>>

----------------------------------------------------------------------------
(* The booking engine: Spec *)

\* two users, the second an admin; three adventures, the third inactive
Init ==
    /\ users =
          (1 :> [username |-> <<"a">>, email |-> <<"a", "@">>,
                 is_admin |-> FALSE] @@
           2 :> [username |-> <<"b">>, email |-> <<"b", "@">>,
                 is_admin |-> TRUE])
    /\ inflight = << >>
    /\ adventures =
          (1 :> [price |-> 100, max_capacity |-> 5, is_active |-> TRUE,
                 user_id |-> 2] @@
           2 :> [price |-> 250, max_capacity |-> 2, is_active |-> TRUE,
                 user_id |-> 1] @@
           3 :> [price |-> 400, max_capacity |-> 5, is_active |-> FALSE,
                 user_id |-> 2])
    /\ bookings = << >>
    /\ payments = << >>
    /\ resp = Reply("none", 0, "", None)

\* readings of the clock, and the dates requests ask for: two times of day
\* 1 and one of day 2
Early == <<0, 12>>
Late == <<1, 12>>
DayOneMorning == <<1, 9>>
DayOneNoon == <<1, 12>>
DayTwo == <<2, 9>>

DateStr(t) == Some([parses |-> TRUE, t |-> t])
BadDateStr == Some([parses |-> FALSE, t |-> <<0, 0>>])

BookingReq(a, date, participants, number_of_people) ==
    [adventure_id |-> a, booking_date |-> date, participants |-> participants,
     number_of_people |-> number_of_people]

\* requests that pass validation while the clock reads Early
ValidBookingReqs ==
    {BookingReq(1, DateStr(DayOneMorning), Some(3), None),
     BookingReq(1, DateStr(DayOneNoon), Some(3), None),
     BookingReq(1, DateStr(DayTwo), Some(2), None),
     BookingReq(2, DateStr(DayOneNoon), None, Some(2))}

\* requests create_booking rejects
InvalidBookingReqs ==
    {BookingReq(0, DateStr(DayTwo), Some(2), None),
     BookingReq(1, None, Some(2), None),
     BookingReq(3, DateStr(DayTwo), Some(2), None),
     BookingReq(3, None, Some(2), None),
     BookingReq(3, BadDateStr, Some(2), None),
     BookingReq(4, DateStr(DayTwo), Some(2), None),
     BookingReq(1, BadDateStr, Some(2), None),
     BookingReq(1, DateStr(DayTwo), Some(0), Some(0)),
     BookingReq(1, DateStr(DayTwo), Some(6), None),
     BookingReq(2, DateStr(DayTwo), Some(3), None)}

\* (session, request, clock reading) of the create_booking calls
CreateInputs ==
    {<<1, req, Early>> : req \in ValidBookingReqs}
    \cup {<<sid, BookingReq(1, DateStr(DayTwo), Some(2), None), Early>> :
             sid \in {0, 2, 3}}
    \cup {<<1, req, Early>> : req \in InvalidBookingReqs}
    \cup {<<1, BookingReq(1, DateStr(DayOneMorning), Some(3), None), Late>>,
          <<1, BookingReq(1, DateStr(DayOneNoon), Some(3), None), Late>>}

BookingIds == 1..(Cardinality(Refs) + 1)

DoCreateBooking ==
    \E in \in CreateInputs, ref \in Refs :
        CreateBooking(in[1], in[2], ref, in[3])

DoCancelBooking ==
    \E sid \in SessionIds, id \in BookingIds : CancelBooking(sid, id)

DoUpdateBookingStatus ==
    \/ \E id \in BookingIds, st \in AdminStatuses \cup {"refunded"} :
          UpdateBookingStatus(2, id, st)
    \/ \E sid \in {0, 1, 3} : UpdateBookingStatus(sid, 1, "confirmed")

DoGetBookingById ==
    \E sid \in SessionIds, id \in BookingIds : GetBookingById(sid, id)

DoGetUserBookings ==
    \E sid \in SessionIds, st \in {None, Some("pending")} :
        GetUserBookings(sid, st)

DoGetPayments == \E sid \in {0, 1} : GetPayments(sid)

DoGetPayment == \E sid \in {0, 1} : GetPayment(sid, 1)

Next ==
    \/ DoCreateBooking
    \/ DoCancelBooking
    \/ DoUpdateBookingStatus
    \/ DoGetBookingById
    \/ DoGetUserBookings
    \/ DoGetPayments
    \/ DoGetPayment

Spec == Init /\ [][Next]_vars

----------------------------------------------------------------------------
(* Payment reconciliation: SpecPay *)

\* payments initiate_payment may add in a run
MaxPayments == 2

PayRefs == {"BK-AAAAAAAA"}

\* checkout ids the provider may call back with: those of the payments,
\* and one of no payment
CheckoutIds ==
    {payments[i].checkout_request_id : i \in DOMAIN payments}
    \cup {<<"MOCK", 0, 0>>}

Item(name, value) == [Name |-> name, Value |-> value]

\* CallbackMetadata.Item lists of success callbacks
MetadataLists ==
    {<< >>,
     <<Item("MpesaReceiptNumber", "RCPT1"), Item("Amount", 150),
       Item("TransactionDate", "20250601120000"),
       Item("PhoneNumber", "254700000001")>>,
     <<Item("MpesaReceiptNumber", "RCPT1"), Item("TransactionDate", "yesterday")>>}

\* (ResultCode, ResultDesc, metadata) of a callback
CallbackResults ==
    {<<Some(0), "The service request is processed successfully.", m>> :
        m \in MetadataLists}
    \cup {<<Some(1032), "Request cancelled by user", << >> >>}

PayCreateBooking ==
    \E sid \in {0, 1, 3}, ref \in PayRefs :
        CreateBooking(sid, BookingReq(1, DateStr(DayTwo), Some(2), None), ref,
                      Early)

\* (session, booking id, phone number) of the initiate_payment calls: the
\* owner's, and one for each way of being turned away
InitiateInputs ==
    {<<1, 1, "0712345678">>, <<0, 1, "0712345678">>, <<2, 1, "0712345678">>,
     <<1, 0, "0712345678">>, <<1, 1, "">>, <<1, 2, "0712345678">>,
     <<3, 1, "0712345678">>}

PayInitiatePayment ==
    \E in \in InitiateInputs, kw \in BOOLEAN :
        /\ Len(payments) < MaxPayments
        /\ InitiatePayment(in[1], in[2], in[3], kw)

PayStkPush ==
    \E sid \in {0, 1} :
        StkPush(sid, [phone_number |-> "0712345678", amount |-> 200,
                      adventure_id |-> 1])

\* readings of the clock at a callback: none earlier than a stored stamp
ClockReadings == {1, 2}
Readings == {t \in ClockReadings :
                \A i \in DOMAIN payments : payments[i].updated_at <= t}

PayMpesaCallback ==
    \E cid \in CheckoutIds, r \in CallbackResults, now \in Readings :
        MpesaCallback(cid, r[1], r[2], r[3], now)

PayCancelBooking ==
    \E sid \in SessionIds, id \in {1, 2} : CancelBooking(sid, id)

PayUpdateBookingStatus ==
    \/ \E st \in AdminStatuses : UpdateBookingStatus(2, 1, st)
    \/ \E sid \in {1, 2} : UpdateBookingStatus(sid, 2, "confirmed")

NextPay ==
    \/ PayCreateBooking
    \/ PayInitiatePayment
    \/ PayStkPush
    \/ PayMpesaCallback
    \/ PayCancelBooking
    \/ PayUpdateBookingStatus

SpecPay == Init /\ [][NextPay]_vars

----------------------------------------------------------------------------
(* Adventure administration: SpecAdv *)

AdventureData(max_capacity, is_active, price) ==
    [max_capacity |-> max_capacity, is_active |-> is_active, price |-> price]

PriceStr(v) == Some([parses |-> TRUE, v |-> v])
BadPriceStr == Some([parses |-> FALSE, v |-> 0])

\* bodies of update_adventure requests: a new price, a new capacity, and
\* bodies whose price is negative or no number
UpdateData ==
    {AdventureData(None, None, PriceStr(150)),
     AdventureData(Some(3), None, None),
     AdventureData(Some(5), Some(TRUE), PriceStr(100)),
     AdventureData(Some(3), Some(FALSE), PriceStr(0 - 5)),
     AdventureData(None, Some(FALSE), BadPriceStr)}

AdvCreateBooking ==
    \E ref \in PayRefs :
        CreateBooking(1, BookingReq(1, DateStr(DayTwo), Some(2), None), ref, Early)

AdvUpdateBookingStatus ==
    \E st \in {"confirmed", "cancelled"} : UpdateBookingStatus(2, 1, st)

AdvUpdateAdventure ==
    \/ \E sid \in {0, 1, 2}, id \in {1, 4}, data \in UpdateData :
          UpdateAdventure(sid, id, data)
    \/ UpdateAdventure(1, 2, AdventureData(Some(3), None, None))

AdvDeleteAdventure ==
    \E sid \in {0, 1, 2}, id \in {1, 4} : DeleteAdventure(sid, id)

AdvToggleAdventureStatus ==
    \E sid \in {0, 1, 2}, id \in {1, 4} : ToggleAdventureStatus(sid, id)

NextAdv ==
    \/ AdvCreateBooking
    \/ AdvUpdateBookingStatus
    \/ AdvUpdateAdventure
    \/ AdvDeleteAdventure
    \/ AdvToggleAdventureStatus

SpecAdv == Init /\ [][NextAdv]_vars

----------------------------------------------------------------------------
(* User management under concurrent requests: SpecUsers *)

MaxUsers == 4

\* the requests that can be in progress at once
ReqIds == {1, 2}

\* a register body
RegisterData(username, email, password) ==
    [username |-> username, email |-> email, password |-> password]

\* bodies naming a new or a taken username and email, in the spellings
\* the normalisation folds together, and a body without its password
RegisterBodies ==
    {RegisterData(Some(u), Some(e), Some(<<"p">>)) :
        u \in {<<"c">>, <<" ", "c">>, <<"d">>, <<"a">>},
        e \in {<<"c", "@">>, <<"C", "@", " ">>, <<"d", "@">>, <<"b", "@">>}}
    \cup {RegisterData(Some(<<"c">>), Some(<<"c", "@">>), None),
          RegisterData(Some(<<>>), Some(<<"c", "@">>), Some(<<"p">>))}

UsrToggleAdminCheck ==
    \E rid \in ReqIds, sid \in SessionIds, user_id \in {1, 2, 3} :
        ToggleAdminCheck(rid, sid, user_id)

UsrToggleAdminBody == \E rid \in ReqIds : ToggleAdminBody(rid)

UsrRegisterCheck ==
    \E rid \in ReqIds, data \in RegisterBodies :
        /\ Cardinality(DOMAIN users) + Cardinality(Pending("register"))
              < MaxUsers
        /\ RegisterCheck(rid, data)

UsrRegisterCommit == \E rid \in ReqIds : RegisterCommit(rid)

NextUsers ==
    \/ UsrToggleAdminCheck
    \/ UsrToggleAdminBody
    \/ UsrRegisterCheck
    \/ UsrRegisterCommit

SpecUsers == Init /\ [][NextUsers]_vars

----------------------------------------------------------------------------
(* Claims *)

\* the calendar dates booked so far
BookedDates == {Date(bookings[i].adventure_date) : i \in DOMAIN bookings}

\* C1: for each adventure and each calendar date, the people on confirmed
\* bookings never exceed the adventure's max_capacity
C1_ConfirmedWithinCapacity ==
    \A a \in DOMAIN adventures, d \in BookedDates :
        ConfirmedPeople(bookings, a, d) <= adventures[a].max_capacity

\* the spec's available = max_capacity - confirmed people for the date
Available(a, d) == adventures[a].max_capacity - ConfirmedPeople(bookings, a, d)

\* C2: create_booking does not accept a party larger than available =
\* max_capacity - people on confirmed bookings of the adventure on the
\* date (an accepted request inserts a pending booking, which leaves
\* available as the request found it)
C2_OverCapacityRejected ==
    (resp.op = "create_booking" /\ resp.code = 201) =>
        LET b == resp.body[1]
        IN b.participants <= Available(b.adventure_id, Date(b.adventure_date))

\* the payment a callback for checkout id cid finds, or 0
Found(cid) == PaymentByCheckoutId(payments, cid)

\* the session of the owner of booking id
OwnerOf(id) == bookings[id].user_id

C5_CallbackIdempotent ==
    \A cid \in CheckoutIds, r \in CallbackResults, t1, t2 \in Readings :
        t1 <= t2 =>
        LET once == CallbackOutcome(payments, bookings, cid, r[1], r[2], r[3], t1)
            twice == CallbackOutcome(once.payments, once.bookings,
                                     cid, r[1], r[2], r[3], t2)
        IN /\ twice.payments = once.payments
           /\ twice.bookings = once.bookings

\* C5 witness: a callback has completed one payment while another is
\* still pending, so a further callback changes the tables
C5_Witness ==
    /\ resp.op = "mpesa_callback" /\ resp.code = 200
    /\ \E i \in DOMAIN payments :
          payments[i].status = "completed" /\ payments[i].mpesa_receipt_number # None
    /\ \E j \in DOMAIN payments : payments[j].status = "pending"

C7_CancelTerminalRejected ==
    [][\A sid \in SessionIds, id \in BookingIds :
         (/\ id \in DOMAIN bookings
          /\ bookings[id].status \in {"completed", "cancelled"}
          /\ CancelBooking(sid, id))
         => /\ resp'.code # 200
            /\ bookings' = bookings
            /\ UNCHANGED <<users, adventures, payments>>
            /\ sid = OwnerOf(id) =>
                  resp'.code = 400 /\ resp'.error = "InvalidStateTransition"]_vars

\* C7 witness: the owner's cancel of a completed booking was answered with
\* the invalid-state error
C7_Witness ==
    /\ resp.op = "cancel_booking" /\ resp.error = "InvalidStateTransition"
    /\ Len(bookings) = 1 /\ bookings[1].status = "completed"

\* the status changes the booking lifecycle allows
AllowedTransitions ==
    {<<"pending", "confirmed">>, <<"pending", "cancelled">>,
     <<"confirmed", "completed">>, <<"confirmed", "cancelled">>}

\* C8: a booking's status is always one of pending, confirmed, cancelled,
\* completed, and every change of it is an allowed transition (so cancelled
\* and completed are never left)
C8_StatusLifecycle ==
    [][\A i \in DOMAIN bookings' :
         /\ bookings'[i].status \in BookingStatuses
         /\ i \in DOMAIN bookings =>
               \/ bookings'[i].status = bookings[i].status
               \/ <<bookings[i].status, bookings'[i].status>> \in AllowedTransitions]_vars

\* the pending payments of booking id
PendingPayments(id) ==
    {i \in DOMAIN payments :
        payments[i].booking_id = id /\ payments[i].status = "pending"}

C10_CreateReadRoundTrip ==
    [][\A sid \in SessionIds, id \in BookingIds :
         (/\ resp.op = "create_booking" /\ resp.code = 201
          /\ resp.body[1].id = id /\ sid = OwnerOf(id))
         => LET made == resp.body[1]
                Same(read) ==
                    /\ read.booking_reference = made.booking_reference
                    /\ read.total_amount =
                          adventures[made.adventure_id].price * made.participants
                    /\ read.status = "pending"
            IN /\ GetBookingById(sid, id) =>
                     resp'.code = 200 /\ Same(resp'.body[1])
               /\ \A st \in {None, Some("pending")} :
                     GetUserBookings(sid, st) =>
                        /\ resp'.code = 200
                        /\ \E k \in DOMAIN resp'.body[1] :
                              resp'.body[1][k].id = id /\ Same(resp'.body[1][k])]_vars

\* C10 witness: a booking for three people, still pending, read back by id
C10_Witness ==
    /\ resp.op = "get_booking_by_id" /\ resp.code = 200
    /\ resp.body[1].id = Len(bookings)
    /\ resp.body[1].status = "pending"
    /\ resp.body[1].participants = 3
    /\ resp.body[1].total_amount = 300

\* C11: no two bookings share a booking_reference, and no step changes the
\* booking_reference of a booking that exists
C11_ReferenceUniqueImmutable ==
    [][/\ \A i, j \in DOMAIN bookings' :
            bookings'[i].booking_reference = bookings'[j].booking_reference
               => i = j
       /\ \A i \in DOMAIN bookings :
            /\ i \in DOMAIN bookings'
            /\ bookings'[i].booking_reference = bookings[i].booking_reference]_vars

\* C11 witness: two bookings are stored, and a create_booking that drew a
\* reference already in use has just been turned away
C11_Witness ==
    /\ Len(bookings) = 2
    /\ bookings[1].status = "cancelled"
    /\ resp.op = "create_booking" /\ resp.code = 500

\* C12: initiate_payment for a booking of another user, or for a booking
\* whose status is not pending, fails, creates no Payment and leaves the
\* bookings as they are
C12_InitiateRejected ==
    [][\A sid \in SessionIds, id \in DOMAIN bookings,
         phone \in {"", "0712345678"}, kw \in BOOLEAN :
         (/\ bookings[id].user_id # sid \/ bookings[id].status # "pending"
          /\ InitiatePayment(sid, id, phone, kw))
         => /\ resp'.code # 200
            /\ payments' = payments
            /\ bookings' = bookings]_vars

\* C12 witness: the owner's initiate_payment on a cancelled booking was
\* turned away
C12_Witness ==
    /\ resp.op = "initiate_payment" /\ resp.error = "InvalidStateTransition"
    /\ Len(bookings) = 1 /\ bookings[1].status = "cancelled"

\* C13: cancel_booking on a pending or confirmed booking sets it to
\* cancelled when the session user is the booking's owner or an admin, and
\* otherwise fails and leaves the bookings as they are
C13_OwnerOrAdminCancels ==
    [][\A sid \in SessionIds, id \in DOMAIN bookings :
         (/\ bookings[id].status \in {"pending", "confirmed"}
          /\ CancelBooking(sid, id))
         => IF sid = OwnerOf(id) \/ (sid \in DOMAIN users /\ users[sid].is_admin)
            THEN bookings'[id].status = "cancelled"
            ELSE resp'.code # 200 /\ bookings' = bookings]_vars

\* C14: a callback whose checkout id matches no stored Payment changes no
\* Payment and no Booking and is acknowledged as success
C14_UnknownCallbackAcknowledged ==
    [][\A cid \in CheckoutIds, r \in CallbackResults, now \in Readings :
         (/\ \A i \in DOMAIN payments : payments[i].checkout_request_id # cid
          /\ MpesaCallback(cid, r[1], r[2], r[3], now))
         => /\ payments' = payments
            /\ bookings' = bookings
            /\ resp'.code = 200 /\ resp'.body[1].ResultCode = 0]_vars

\* C14 witness: a pending Payment is stored and a callback has just been
\* acknowledged without touching it
C14_Witness ==
    /\ resp.op = "mpesa_callback" /\ resp.code = 200
    /\ Len(payments) = 1
    /\ payments[1].status = "pending" /\ payments[1].result_code = None

\* C15: the available-slots figure of an adventure for a date is
\* max_capacity less the people (number_of_people summed) on the
\* adventure's confirmed bookings of that calendar date
C15_AvailableSlotsSumPeople ==
    \A a \in DOMAIN adventures, d \in BookedDates :
        calculate_available_slots(a, d) = Available(a, d)

\* C16: a cancel_booking that cancels a confirmed booking of n people
\* raises the available-slots figure of the booking's adventure and date
\* by exactly n
C16_CancelFreesPartySize ==
    [][\A sid \in SessionIds, id \in DOMAIN bookings :
         (/\ bookings[id].status = "confirmed"
          /\ CancelBooking(sid, id)
          /\ bookings'[id].status = "cancelled")
         => LET a == bookings[id].adventure_id
                d == Date(bookings[id].adventure_date)
            IN calculate_available_slots(a, d)' =
                  calculate_available_slots(a, d) + bookings[id].number_of_people]_vars

C19_TotalAmountFrozen ==
    [][\A i \in DOMAIN bookings :
         /\ i \in DOMAIN bookings'
         /\ bookings'[i].total_amount = bookings[i].total_amount]_vars

\* C19 witness: booking 1 of two people was made at price 100, and an
\* update_adventure has since set the adventure's price to 150
C19_Witness ==
    /\ resp.op = "update_adventure" /\ resp.code = 200
    /\ Len(bookings) = 1 /\ bookings[1].adventure_id = 1
    /\ bookings[1].total_amount = 200
    /\ adventures[1].price = 150

\* C20: no step changes the price or the max_capacity of an adventure that
\* a confirmed booking references
C20_BookedAdventureFrozen ==
    [][\A a \in DOMAIN adventures :
         (\E i \in DOMAIN bookings : /\ bookings[i].adventure_id = a
                                     /\ bookings[i].status = "confirmed")
         => /\ adventures'[a].price = adventures[a].price
            /\ adventures'[a].max_capacity = adventures[a].max_capacity]_vars

\* C21: a create_booking whose request is valid, made while some reference
\* is still unused, never fails on the reference it drew: it ends with one
\* booking inserted
C21_CollisionRetried ==
    [][\A in \in CreateInputs, ref \in Refs :
         (/\ \E free \in Refs :
                CreateBookingOutcome(in[1], in[2], free, in[3]).resp.code = 201
          /\ CreateBooking(in[1], in[2], ref, in[3]))
         => /\ resp'.code = 201
            /\ Len(bookings') = Len(bookings) + 1]_vars

C23_DateStrictlyLater ==
    [][\A in \in CreateInputs, ref \in Refs :
         (/\ in[2].booking_date # None /\ in[2].booking_date[1].parses
          /\ ~Before(in[3], in[2].booking_date[1].t)
          /\ CreateBooking(in[1], in[2], ref, in[3]))
         => /\ resp'.code # 201
            /\ bookings' = bookings]_vars

C25_ConfirmedMeansPaid ==
    \A i \in DOMAIN bookings :
        bookings[i].status = "confirmed" =>
           \E p \in DOMAIN payments :
              /\ payments[p].status = "completed"
              /\ payments[p].booking_id = i \/ bookings[i].payment_id = Some(p)

\* C26: from a state with an admin, no interleaving of toggle_admin requests
\* leaves the system with zero admins
C26_AlwaysAnAdmin == \E u \in DOMAIN users : users[u].is_admin

\* C27: under every interleaving of register requests no two users share a
\* username or an email, and a register step that finds its username or
\* email taken answers 400 with an already-exists error, inserts no user and
\* sets no session
C27_RegisterUnique ==
    [][/\ \A u, v \in DOMAIN users' :
             u # v => /\ users'[u].username # users'[v].username
                      /\ users'[u].email # users'[v].email
       /\ \A rid \in ReqIds :
             (/\ RegisterCommit(rid)
              /\ \E u \in DOMAIN users :
                    \/ users[u].username = inflight[rid].username
                    \/ users[u].email = inflight[rid].email)
             => /\ resp'.op = "register" /\ resp'.code = 400
                /\ resp'.error = "UserExists"
                /\ resp'.body = None
                /\ users' = users
       /\ \A rid \in ReqIds, data \in RegisterBodies :
             (/\ RegisterCheck(rid, data)
              /\ validate_required_fields(data,
                                          {"username", "email", "password"})
              /\ \E u \in DOMAIN users :
                    \/ users[u].username = strip(data.username[1])
                    \/ users[u].email = lower(strip(data.email[1])))
             => /\ resp'.op = "register" /\ resp'.code = 400
                /\ resp'.error \in {"UsernameExists", "EmailExists"}
                /\ resp'.body = None
                /\ UNCHANGED <<users, inflight>>]_vars

\* C27 witness: a request that passed the look-ups lost the race to a
\* request for the same name and was answered at the INSERT
C27_Witness ==
    /\ resp.op = "register" /\ resp.code = 400 /\ resp.error = "UserExists"
    /\ \E u \in DOMAIN users : u > 2

\* C28: the booking and payment reads of a non-admin user answer 200 only
\* with rows whose user_id is the session user, and a step that changes
\* bookings or payments but leaves that user's own rows as they were leaves
\* the answers of the user's reads as they were
C28_ReadsOwnRecordsOnly ==
    /\ [](\A sid \in {u \in DOMAIN users : ~users[u].is_admin} :
             /\ \A id \in DOMAIN bookings :
                   GetBookingByIdReply(sid, id).code = 200 =>
                      /\ bookings[id].user_id = sid
                      /\ GetBookingByIdReply(sid, id).body[1].id = id
             /\ \A st \in {None, Some("pending"), Some("cancelled")} :
                   LET r == GetUserBookingsReply(sid, st)
                   IN  r.code = 200 =>
                          \A k \in DOMAIN r.body[1] :
                             bookings[r.body[1][k].id].user_id = sid
             /\ GetPaymentsReply(sid).body = None
             /\ \A p \in 1..(Len(payments) + 1) :
                   GetPaymentReply(sid, p).body = None)
    /\ [][\A sid \in {u \in DOMAIN users : ~users[u].is_admin} :
             LET own(rows) ==
                     {<<i, rows[i]>> :
                         i \in {j \in DOMAIN rows : rows[j].user_id = sid}}
             IN
             (/\ bookings' # bookings \/ payments' # payments
              /\ own(bookings') = own(bookings)
              /\ own(payments') = own(payments)
              /\ adventures' = adventures
              /\ users' = users)
             => /\ \A id \in DOMAIN bookings' :
                      GetBookingByIdReply(sid, id)' =
                         GetBookingByIdReply(sid, id)
                /\ \A st \in {None, Some("pending"), Some("cancelled")} :
                      GetUserBookingsReply(sid, st)' =
                         GetUserBookingsReply(sid, st)
                /\ GetPaymentsReply(sid)' = GetPaymentsReply(sid)
                /\ \A p \in 1..(Len(payments') + 1) :
                      GetPaymentReply(sid, p)' = GetPaymentReply(sid, p)]_vars

\* C28 witness: a user listed their bookings while another user had
\* bookings too, and the list holds fewer rows than the table
C28_Witness ==
    /\ resp.op = "get_user_bookings" /\ resp.code = 200
    /\ resp.body[1] # << >>
    /\ Len(resp.body[1]) < Len(bookings)
    /\ \E i, j \in DOMAIN bookings :
          /\ bookings[i].user_id # bookings[j].user_id
          /\ bookings[i].status = "pending" /\ bookings[j].status = "pending"

\* C29: create_booking, initiate_payment and cancel_booking of a session
\* without user_id, or with the user_id of no stored user, answer 401 and
\* change no booking and no payment
C29_UnauthenticatedChangesNothing ==
    [][\A sid \in {x \in SessionIds : x = 0 \/ x \notin DOMAIN users} :
          (\/ \E ref \in PayRefs :
                 CreateBooking(sid,
                               BookingReq(1, DateStr(DayTwo), Some(2), None),
                               ref, Early)
           \/ \E in \in InitiateInputs, kw \in BOOLEAN :
                 in[1] = sid /\ InitiatePayment(sid, in[2], in[3], kw)
           \/ \E id \in {1, 2} : CancelBooking(sid, id))
          => /\ resp'.code = 401
             /\ resp'.error = "Unauthorized"
             /\ bookings' = bookings
             /\ payments' = payments]_vars

\* C29 witness: initiate_payment without a session user was answered 401
\* while a pending booking was there to be paid
C29_Witness ==
    /\ resp.op = "initiate_payment" /\ resp.code = 401
    /\ \E i \in DOMAIN bookings : bookings[i].status = "pending"

\* C30: an update_adventure of the creator or an admin whose price is no
\* number or is negative is answered 400 and leaves the stored adventure,
\* with every other field the request sent, as it was
C30_RejectedUpdateChangesNothing ==
    [][\A sid \in {1, 2}, id \in DOMAIN adventures, data \in UpdateData :
          (/\ UpdateAdventure(sid, id, data)
           /\ MayEdit(sid, adventures[id])
           /\ data.price # None
           /\ ~data.price[1].parses \/ data.price[1].v < 0)
          => /\ resp'.code = 400
             /\ adventures' = adventures
             /\ bookings' = bookings]_vars

\* C30 witness: a request carrying other fields was rejected for its price
\* and the adventure still has the capacity and the flag it had
C30_Witness ==
    /\ resp.op = "update_adventure" /\ resp.code = 400
    /\ adventures[1].max_capacity = 5
    /\ adventures[1].is_active

====
